---- MODULE Spec2Model ----
(***************************************************************************)
(* Fire alarm system (fire-detection-opencv-master/fire_alarm_system.py):  *)
(* the AlarmManager state machine, its audio session and the playback      *)
(* loop threads it spawns.                                                 *)
(*                                                                         *)
(* The frame-processing path (update, toggle_sound, the 'r' key reset) is  *)
(* one thread: each of its handlers is one action.  Every play_loop thread *)
(* started by _play_windows_audio runs concurrently and is modelled step   *)
(* by step: the test of its while condition, the Popen of one playback     *)
(* process, and the end of that process.  play_loop threads have no        *)
(* identity in the program (audio_thread is written and never read), so    *)
(* the model keeps how many of them are in each local state.               *)
(*                                                                         *)
(* The FireDetector works on the contours OpenCV extracts from a frame:    *)
(* the image operations are the library's, the area filter, the result and *)
(* the detection history are the program's.  Spec is the frame loop with   *)
(* the configuration of the source; SpecDetector drives the detector alone *)
(* with CONSECUTIVE_FRAMES configured to 1..MaxK.                          *)
(*                                                                         *)
(* Two more programs of the repository are modelled, each under its own    *)
(* specification: the tic-tac-toe game (tic_tac_toe/main.py, SpecGame),    *)
(* one action per button click, and the bank (Bank/Bank.py, SpecBank),     *)
(* one action per menu choice, what the user types being strings that the  *)
(* methods test and parse.                                                 *)
(***************************************************************************)
EXTENDS Integers, Sequences, FiniteSets, TLC

\* ------------------------------------------------------------ constants

\* COOLDOWN_FRAMES: frames without fire before stopping the alarm.
COOLDOWN_FRAMES == 30

\* Bound of the model: play_loop threads that may be alive at the same time.
MaxThreads == 2

\* FIRE_MIN_AREA: minimum contour area to consider as fire.
FIRE_MIN_AREA == 500

\* CONSECUTIVE_FRAMES: frames of fire detection before triggering the alarm.
CONSECUTIVE_FRAMES == 1

\* Camera frame size.
CAMERA_WIDTH == 640
CAMERA_HEIGHT == 480

\* Bounds of the model: the largest configured CONSECUTIVE_FRAMES the
\* detector is driven with, and the contours of one frame.
MaxK == 3
MaxContours == 2

\* Contour areas a frame may hold: below the filter, at it, and a twentieth
\* and a tenth of the camera frame.
Areas == {FIRE_MIN_AREA - 1, FIRE_MIN_AREA,
          (CAMERA_WIDTH * CAMERA_HEIGHT) \div 20, (CAMERA_WIDTH * CAMERA_HEIGHT) \div 10}

\* A frame: its shape (rows, columns), its channels, and the areas of the
\* contours cv2.findContours finds on its mask, in the order found.  A
\* contour is named by its area, and its bounding rectangle by the contour.
SeqsUpTo(S, n) == UNION {[1..k -> S] : k \in 0..n}
FrameShape == <<CAMERA_HEIGHT, CAMERA_WIDTH>>
\* A BGR image has three channels.
BGR == 3
Frames == [shape : {FrameShape}, channels : {BGR}, contours : SeqsUpTo(Areas, MaxContours)]
\* Frames cv2.cvtColor(frame, cv2.COLOR_BGR2HSV) rejects: an empty image, a
\* single-channel (grayscale) image.
MalformedFrames ==
    {[shape |-> <<0, 0>>, channels |-> BGR, contours |-> <<>>],
     [shape |-> FrameShape, channels |-> 1, contours |-> <<>>]}
\* The frames of the frame loop, as the camera delivers them: nothing in
\* range, a glint, a fire.
LoopFrames ==
    [shape : {FrameShape}, channels : {BGR},
     contours : {<<>>, <<FIRE_MIN_AREA - 1>>, <<(CAMERA_WIDTH * CAMERA_HEIGHT) \div 10>>}]

\* Where a play_loop thread is: at its while condition, about to Popen, or in
\* audio_process.wait() while its playback process plays.
Pcs == {"check", "popen", "playing"}

\* History of a play_loop thread: "live" until _stop_sound has returned since
\* the thread was started, "stopped" from then on, "resumed" once it has
\* passed its while condition again after that.
Marks == {"live", "stopped", "resumed"}

LoopStates == Pcs \X Marks

\* audio_process: None, a handle to a process that has exited, or the handle
\* to the running process of a thread in <<"playing", m>>, written m.
None == "None"
Exited == "Exited"

\* AUDIO_METHOD, as the import block at the top of the file leaves it.
AudioMethods == {"pygame", "windows", "none"}

\* What the backend does during one handler: Thread.start raises or not.
\* (pygame.mixer.music.play and stop raise exactly when the mixer holds no
\* loaded music: see mixer_ok.)
Faults == [startRaises : BOOLEAN]
\* A handler that cannot reach _play_sound starts no thread.
NoFaults == {f \in Faults : ~f.startRaises}

\* ------------------------------------------------------------ state

VARIABLES
    K,                \* the configured CONSECUTIVE_FRAMES
    detection_history,\* FireDetector.detection_history (a deque, oldest first)
    detection_result, \* what the last detect call that returned, returned
    fault,            \* the exception the last detect call raised to its caller, or "none"
    frame,            \* history (detector alone): the frame of the last detect call
    arrivals,         \* history (detector alone): the last K+1 values detect returned since the last reset, oldest first
    trueRun,          \* history (detector alone): detect calls that returned fire_detected=True in a row, up to K
    asset,            \* what AlarmManager.__init__ found: "missing", "load_failed" or "ok"
    AUDIO_METHOD,     \* module global: "pygame", "windows" or "none"
    mixer_ok,         \* pygame.mixer is initialised and holds the loaded sound
    sound_loaded,     \* AlarmManager.sound_loaded
    alarm_active,     \* AlarmManager.alarm_active
    is_playing,       \* AlarmManager.is_playing
    sound_enabled,    \* AlarmManager.sound_enabled
    no_fire_counter,  \* AlarmManager.no_fire_counter
    audio_process,    \* AlarmManager.audio_process
    threads,          \* threads[st]: how many play_loop threads are in local state st
    music,            \* pygame.mixer.music is playing (looping)
    \* history variables (read by no handler)
    started,          \* playbacks started by the last frame-path handler
    startError,       \* that handler printed "Error playing sound"
    propagated,       \* an exception left that handler and reached the frame loop
    lastOp,           \* the last frame-path handler that ran
    pre,              \* the manager's fields before that handler
    ret,              \* what that handler returned
    falseRun,         \* update(False) calls on an active alarm since the last update(True)
    twoBack,          \* sound_enabled before the handler preceding the last one, if that was toggle_sound
    ref,              \* alarm_active and no_fire_counter of a second manager, muted and silent, given the same updates and resets
    \* tic_tac_toe/main.py
    buttons,          \* buttons[i]["text"], i in 0..8: "", "X" or "O"
    bg,               \* buttons[i]["bg"]
    current_player,   \* module global current_player
    winner,           \* module global winner
    placed,           \* history: the marks put on the board since the last reset_game, in order
    click,            \* history: what the last click did
    \* Bank/Bank.py, the PriyaBank instance
    accounts,         \* self.accounts: the names
    citizens,         \* self.citizens
    balances,         \* self.balances
    account_numbers,  \* self.account_numbers
    pins,             \* self.pins
    deposit_count,    \* self.deposit_count
    loans,            \* self.loans
    bank_op,          \* history: the last menu choice that ran, if open_account, delete_account or withdraw
    bank_pre          \* history: self.balances before it

progvars == <<AUDIO_METHOD, mixer_ok, sound_loaded, alarm_active, is_playing, sound_enabled,
              no_fire_counter, audio_process, threads, music>>
histvars == <<started, startError, propagated, lastOp, pre, ret, falseRun, twoBack, ref>>
\* The detector's fields and result, and its history variables.
detvars == <<detection_history, detection_result, fault>>
dethist == <<frame, arrivals, trueRun>>
envvars == <<K, asset>>
\* The fire alarm system.
firevars == <<progvars, histvars, detvars, dethist, envvars>>
\* tic_tac_toe/main.py and Bank/Bank.py: separate programs, which share
\* nothing with the fire alarm system or with each other.
gamevars == <<buttons, bg, current_player, winner, placed, click>>
bankvars == <<accounts, citizens, balances, account_numbers, pins, deposit_count,
              loans, bank_op, bank_pre>>
vars == <<firevars, gamevars, bankvars>>

\* The mutable state a handler works on, as one record.
State ==
    [alarm_active |-> alarm_active, is_playing |-> is_playing,
     sound_enabled |-> sound_enabled, no_fire_counter |-> no_fire_counter,
     audio_process |-> audio_process, threads |-> threads, music |-> music,
     started |-> 0, error |-> FALSE, raised |-> FALSE, ret |-> "None", overflow |-> FALSE]

Snapshot ==
    [alarm_active |-> alarm_active, is_playing |-> is_playing,
     sound_enabled |-> sound_enabled, no_fire_counter |-> no_fire_counter]

\* ------------------------------------------------------------ FireDetector

\* Mutant: every contour is kept, whatever its area.
Surviving_unfiltered(cs) == cs

\* Mutant: a contour of exactly FIRE_MIN_AREA is dropped too.
Surviving_strict(cs) == SelectSeq(cs, LAMBDA c : c > FIRE_MIN_AREA)

\* The contours of cs, in order, that pass `area >= FIRE_MIN_AREA`.
RECURSIVE Surviving(_)
Surviving(cs) ==
    IF cs = <<>> THEN <<>>
    ELSE IF Head(cs) >= FIRE_MIN_AREA THEN <<Head(cs)>> \o Surviving(Tail(cs))
    ELSE Surviving(Tail(cs))

RECURSIVE SumSeq(_)
SumSeq(q) == IF q = <<>> THEN 0 ELSE Head(q) + SumSeq(Tail(q))

\* cv2.boundingRect(contour)
boundingRect(c) == <<"rect", c>>

\* Mutant: the ratio is not capped.
Confidence_uncapped(total_fire_area, frame_area) ==
    [num |-> 10 * total_fire_area, den |-> frame_area]

\* min(total_fire_area / (frame_area * 0.1), 1.0), as the fraction num/den.
Confidence(total_fire_area, frame_area) ==
    IF 10 * total_fire_area >= frame_area
    THEN [num |-> 1, den |-> 1]
    ELSE [num |-> 10 * total_fire_area, den |-> frame_area]

\* cv2.cvtColor(frame, cv2.COLOR_BGR2HSV), the first statement of detect,
\* raises cv2.error on an empty image and on one without 3 (or 4) channels;
\* detect has no handler, nor has FireAlarmSystem.run around its call.
cvtColorRaises(fr) ==
    \/ fr.shape[1] * fr.shape[2] = 0
    \/ fr.channels \notin {3, 4}

\* Mutant: fire is reported when the list of boxes exists, empty or not.
detect_always_fire(fr) ==
    LET kept == Surviving(fr.contours)
        bounding_boxes == [i \in 1..Len(kept) |-> boundingRect(kept[i])]
        total_fire_area == SumSeq(kept)
        frame_area == fr.shape[1] * fr.shape[2]
    IN [fire_detected |-> Len(bounding_boxes) >= 0,
        confidence |-> Confidence(total_fire_area, frame_area),
        bounding_boxes |-> bounding_boxes,
        fire_area |-> total_fire_area]

\* FireDetector.detect, from the contours on: the returned dict (the mask is
\* an image and is left out).
detect(fr) ==
    LET kept == Surviving(fr.contours)
        bounding_boxes == [i \in 1..Len(kept) |-> boundingRect(kept[i])]
        total_fire_area == SumSeq(kept)
        frame_area == fr.shape[1] * fr.shape[2]
    IN [fire_detected |-> Len(bounding_boxes) > 0,
        confidence |-> Confidence(total_fire_area, frame_area),
        bounding_boxes |-> bounding_boxes,
        fire_area |-> total_fire_area]

\* Mutant: a full deque drops the newest entry to make room.
deque_append_drops_newest(h, x, k) ==
    IF Len(h) >= k THEN Append(SubSeq(h, 1, Len(h) - 1), x) ELSE Append(h, x)

\* deque(maxlen=k).append(x)
deque_append(h, x, k) ==
    IF Len(h) >= k THEN Append(Tail(h), x) ELSE Append(h, x)

\* all(h)
all(h) == \A i \in 1..Len(h) : h[i]

\* Mutant: one positive entry in a full history confirms.
is_fire_confirmed_any(h, k) ==
    IF Len(h) < k THEN FALSE ELSE \E i \in 1..Len(h) : h[i]

\* Mutant: the length of the history is not looked at.
is_fire_confirmed_no_length(h, k) == all(h)

\* FireDetector.is_fire_confirmed
is_fire_confirmed(h, k) ==
    IF Len(h) < k THEN FALSE ELSE all(h)

\* No frame yet.
NoFrame == [shape |-> <<0, 0>>, channels |-> 0, contours |-> <<>>]

\* What detect returns before any call: nothing yet.
NoResult ==
    [fire_detected |-> FALSE, confidence |-> [num |-> 0, den |-> 1],
     bounding_boxes |-> <<>>, fire_area |-> 0]

\* ------------------------------------------------------------ AlarmManager

\* AlarmManager.__init__: sound_loaded from the sound file and the audio method.
\* AlarmManager.__init__: what became of the sound file.
InitAsset(method, fileExists, loadOk) ==
    IF ~fileExists THEN "missing"
    ELSE IF method = "pygame" /\ ~loadOk THEN "load_failed"
    ELSE "ok"

InitSoundLoaded(method, fileExists, loadOk, win32) ==
    IF ~fileExists THEN FALSE
    ELSE IF method = "pygame" THEN (loadOk \/ win32)
    ELSE IF method = "windows" THEN TRUE
    ELSE FALSE

RECURSIVE SumOver(_, _)
SumOver(t, S) ==
    IF S = {} THEN 0
    ELSE LET x == CHOOSE y \in S : TRUE IN t[x] + SumOver(t, S \ {x})

\* The play_loop threads that have not returned.
NumThreads(t) == SumOver(t, LoopStates)

\* One thread goes from local state a to local state b.
Move(t, a, b) == IF a = b THEN t ELSE [t EXCEPT ![a] = @ - 1, ![b] = @ + 1]

\* Thread(target=play_loop, daemon=True).start(): the new thread is at its
\* while condition.
StartThread(s) ==
    IF NumThreads(s.threads) >= MaxThreads THEN [s EXCEPT !.overflow = TRUE]
    ELSE [s EXCEPT !.threads[<<"check", "live">>] = @ + 1, !.started = @ + 1]

\* Mutant: is_playing is set only once the thread has been started.
_play_windows_audio_flag_after_start(s, f) ==
    IF s.is_playing THEN s
    ELSE IF f.startRaises THEN [s EXCEPT !.raised = TRUE]
         ELSE StartThread([s EXCEPT !.is_playing = TRUE])

_play_windows_audio(s, f) ==
    IF s.is_playing THEN s
    ELSE LET s1 == [s EXCEPT !.is_playing = TRUE] IN
         IF f.startRaises THEN [s1 EXCEPT !.raised = TRUE] ELSE StartThread(s1)

\* The body of the try statement of _play_sound.
PlayBody(s, f) ==
    IF AUDIO_METHOD = "pygame" THEN
        IF mixer_ok
        THEN [s EXCEPT !.music = TRUE, !.is_playing = TRUE, !.started = @ + 1]
        ELSE _play_windows_audio(s, f)
    ELSE IF AUDIO_METHOD = "windows" THEN _play_windows_audio(s, f)
    ELSE s

\* except Exception as e: print(f"Error playing sound: {e}")
Caught(s) == IF s.raised THEN [s EXCEPT !.raised = FALSE, !.error = TRUE] ELSE s

\* Mutant: the sound is started whether or not the file was loaded.
_play_sound_ignores_loaded(s, f) ==
    IF ~s.sound_enabled \/ s.is_playing THEN s
    ELSE Caught(PlayBody(s, f))

\* Mutant: no except clause, what the start raises leaves _play_sound.
_play_sound_no_handler(s, f) ==
    IF ~s.sound_enabled \/ ~sound_loaded \/ s.is_playing THEN s
    ELSE PlayBody(s, f)

_play_sound(s, f) ==
    IF ~s.sound_enabled \/ ~sound_loaded \/ s.is_playing THEN s
    ELSE Caught(PlayBody(s, f))

\* audio_process.terminate(): the process dies at once; the thread waiting on
\* it returns from wait() to its while condition.
Terminate(s) ==
    IF s.audio_process \in Marks
    THEN [s EXCEPT !.threads = Move(@, <<"playing", s.audio_process>>,
                                       <<"check", s.audio_process>>)]
    ELSE s

\* _stop_sound has returned: every thread alive at that moment is "stopped".
MarkStopped(t) ==
    [st \in LoopStates |->
        IF st[2] = "live" THEN 0
        ELSE IF st[2] = "stopped" THEN t[st] + t[<<st[1], "live">>]
        ELSE t[st]]

\* Mutant: the backends are stopped even when no session is flagged.
_stop_sound_unguarded(s, f) ==
    LET s1 == IF AUDIO_METHOD = "pygame" /\ mixer_ok
              THEN [s EXCEPT !.music = FALSE] ELSE s
        s2 == IF s1.audio_process # None
              THEN [Terminate(s1) EXCEPT !.audio_process = None] ELSE s1
    IN [s2 EXCEPT !.is_playing = FALSE, !.threads = MarkStopped(@)]

_stop_sound(s, f) ==
    IF ~s.is_playing THEN s
    ELSE LET s1 == IF AUDIO_METHOD = "pygame" /\ mixer_ok
                   THEN [s EXCEPT !.music = FALSE] ELSE s
             s2 == IF s1.audio_process # None
                   THEN [Terminate(s1) EXCEPT !.audio_process = None] ELSE s1
         IN [s2 EXCEPT !.is_playing = FALSE, !.threads = MarkStopped(@)]

\* Mutant: the alarm is raised without starting the sound.
trigger_alarm_silent(s, f) ==
    IF ~s.alarm_active
    THEN [s EXCEPT !.alarm_active = TRUE, !.no_fire_counter = 0]
    ELSE s

\* Mutant: every confirmed frame restarts the sound.
trigger_alarm_restart(s, f) ==
    _play_sound(_stop_sound([s EXCEPT !.alarm_active = TRUE, !.no_fire_counter = 0], f), f)

\* Mutant: the alarm is raised only if the sound could be started.
trigger_alarm_needs_audio(s, f) ==
    IF ~s.alarm_active
    THEN LET s1 == _play_sound([s EXCEPT !.alarm_active = TRUE, !.no_fire_counter = 0], f) IN
         IF s1.is_playing /\ ~s1.error THEN s1 ELSE [s EXCEPT !.error = s1.error]
    ELSE s

trigger_alarm(s, f) ==
    IF ~s.alarm_active
    THEN _play_sound([s EXCEPT !.alarm_active = TRUE, !.no_fire_counter = 0], f)
    ELSE s

\* Mutant: the alarm is lowered and the sound is left running.
stop_alarm_keeps_sound(s, f) ==
    IF s.alarm_active
    THEN [s EXCEPT !.alarm_active = FALSE]
    ELSE s

\* Mutant: stopping the alarm turns the sound back on.
stop_alarm_unmutes(s, f) ==
    IF s.alarm_active
    THEN _stop_sound([s EXCEPT !.alarm_active = FALSE, !.sound_enabled = TRUE], f)
    ELSE s

stop_alarm(s, f) ==
    IF s.alarm_active
    THEN _stop_sound([s EXCEPT !.alarm_active = FALSE], f)
    ELSE s

\* Mutant: the cooldown test is > instead of >=.
update_late(s, fire_confirmed, f) ==
    IF fire_confirmed
    THEN trigger_alarm([s EXCEPT !.no_fire_counter = 0], f)
    ELSE IF s.alarm_active
         THEN LET s1 == [s EXCEPT !.no_fire_counter = @ + 1] IN
              IF s1.no_fire_counter > COOLDOWN_FRAMES THEN stop_alarm(s1, f) ELSE s1
         ELSE s

\* Mutant: the streak is cleared only when the alarm is raised.
update_keeps_streak(s, fire_confirmed, f) ==
    IF fire_confirmed
    THEN trigger_alarm(s, f)
    ELSE IF s.alarm_active
         THEN LET s1 == [s EXCEPT !.no_fire_counter = @ + 1] IN
              IF s1.no_fire_counter >= COOLDOWN_FRAMES THEN stop_alarm(s1, f) ELSE s1
         ELSE s

\* Mutant: the streak is counted whether or not the alarm is active.
update_counts_idle(s, fire_confirmed, f) ==
    IF fire_confirmed
    THEN trigger_alarm([s EXCEPT !.no_fire_counter = 0], f)
    ELSE LET s1 == [s EXCEPT !.no_fire_counter = @ + 1] IN
         IF s1.no_fire_counter >= COOLDOWN_FRAMES THEN stop_alarm(s1, f) ELSE s1

\* Mutant: the frames without fire are counted only while the sound plays.
update_waits_for_sound(s, fire_confirmed, f) ==
    IF fire_confirmed
    THEN trigger_alarm([s EXCEPT !.no_fire_counter = 0], f)
    ELSE IF s.alarm_active /\ s.is_playing
         THEN LET s1 == [s EXCEPT !.no_fire_counter = @ + 1] IN
              IF s1.no_fire_counter >= COOLDOWN_FRAMES THEN stop_alarm(s1, f) ELSE s1
         ELSE s

\* Mutant: the cooldown test comes before the count of the frame.
update_tests_before_counting(s, fire_confirmed, f) ==
    IF fire_confirmed
    THEN trigger_alarm([s EXCEPT !.no_fire_counter = 0], f)
    ELSE IF s.alarm_active
         THEN IF s.no_fire_counter >= COOLDOWN_FRAMES THEN stop_alarm(s, f)
              ELSE [s EXCEPT !.no_fire_counter = @ + 1]
         ELSE s

\* Mutant: the streak is counted up to COOLDOWN_FRAMES and the alarm is
\* never stopped by it.
update_never_stops(s, fire_confirmed, f) ==
    IF fire_confirmed
    THEN trigger_alarm([s EXCEPT !.no_fire_counter = 0], f)
    ELSE IF s.alarm_active /\ s.no_fire_counter < COOLDOWN_FRAMES
         THEN [s EXCEPT !.no_fire_counter = @ + 1]
         ELSE s

update(s, fire_confirmed, f) ==
    IF fire_confirmed
    THEN trigger_alarm([s EXCEPT !.no_fire_counter = 0], f)
    ELSE IF s.alarm_active
         THEN LET s1 == [s EXCEPT !.no_fire_counter = @ + 1] IN
              IF s1.no_fire_counter >= COOLDOWN_FRAMES THEN stop_alarm(s1, f) ELSE s1
         ELSE s

\* Mutant: toggling the sound starts the count of frames without fire afresh.
toggle_sound_clears_streak(s, f) ==
    LET s1 == [s EXCEPT !.sound_enabled = ~@, !.no_fire_counter = 0]
        s2 == IF ~s1.sound_enabled THEN _stop_sound(s1, f)
              ELSE IF s1.alarm_active THEN _play_sound(s1, f)
              ELSE s1
    IN [s2 EXCEPT !.ret = IF s2.sound_enabled THEN "True" ELSE "False"]

\* Mutant: turning the sound on plays it, alarm or no alarm.
toggle_sound_plays_when_idle(s, f) ==
    LET s1 == [s EXCEPT !.sound_enabled = ~@]
        s2 == IF ~s1.sound_enabled THEN _stop_sound(s1, f) ELSE _play_sound(s1, f)
    IN [s2 EXCEPT !.ret = IF s2.sound_enabled THEN "True" ELSE "False"]

\* Mutant: disabling the sound does not stop the session.
toggle_sound_no_stop(s, f) ==
    LET s1 == [s EXCEPT !.sound_enabled = ~@]
        s2 == IF s1.sound_enabled /\ s1.alarm_active THEN _play_sound(s1, f) ELSE s1
    IN [s2 EXCEPT !.ret = IF s2.sound_enabled THEN "True" ELSE "False"]

\* Mutant: the flag is flipped only while the alarm is active.
toggle_sound_active_only(s, f) ==
    LET s1 == [s EXCEPT !.sound_enabled = IF s.alarm_active THEN ~@ ELSE @]
        s2 == IF ~s1.sound_enabled THEN _stop_sound(s1, f)
              ELSE IF s1.alarm_active THEN _play_sound(s1, f)
              ELSE s1
    IN [s2 EXCEPT !.ret = IF s2.sound_enabled THEN "True" ELSE "False"]

toggle_sound(s, f) ==
    LET s1 == [s EXCEPT !.sound_enabled = ~@]
        s2 == IF ~s1.sound_enabled THEN _stop_sound(s1, f)
              ELSE IF s1.alarm_active THEN _play_sound(s1, f)
              ELSE s1
    IN [s2 EXCEPT !.ret = IF s2.sound_enabled THEN "True" ELSE "False"]

\* ------------------------------------------------------------ actions

\* The second manager: the fields of ref, the sound off and nothing playing.
RefState ==
    [State EXCEPT !.alarm_active = ref.alarm_active,
                  !.no_fire_counter = ref.no_fire_counter,
                  !.sound_enabled = FALSE, !.is_playing = FALSE,
                  !.audio_process = None, !.threads = [st \in LoopStates |-> 0],
                  !.music = FALSE]

\* The fields of s that ref keeps.
RefOf(s) == [alarm_active |-> s.alarm_active, no_fire_counter |-> s.no_fire_counter]

\* A frame-path handler ran and left the manager in s.
Ran(s, op) ==
    /\ ~propagated
    /\ ~s.overflow
    /\ alarm_active' = s.alarm_active
    /\ is_playing' = s.is_playing
    /\ sound_enabled' = s.sound_enabled
    /\ no_fire_counter' = s.no_fire_counter
    /\ audio_process' = s.audio_process
    /\ threads' = s.threads
    /\ music' = s.music
    /\ started' = s.started
    /\ startError' = s.error
    /\ propagated' = s.raised
    /\ lastOp' = op
    /\ pre' = Snapshot
    /\ ret' = s.ret
    /\ twoBack' = IF lastOp = "toggle_sound"
                  THEN (IF pre.sound_enabled THEN "on" ELSE "off") ELSE "na"
    /\ UNCHANGED <<AUDIO_METHOD, mixer_ok, sound_loaded>>
    /\ UNCHANGED envvars
    /\ UNCHANGED <<gamevars, bankvars>>

\* FireAlarmSystem.run: self.alarm_manager.update(fire_confirmed)
Update(fire_confirmed) ==
    \E f \in (IF fire_confirmed THEN Faults ELSE NoFaults) :
        /\ Ran(update(State, fire_confirmed, f),
               IF fire_confirmed THEN "update_true" ELSE "update_false")
        /\ falseRun' = IF fire_confirmed THEN 0
                       ELSE IF alarm_active /\ falseRun < COOLDOWN_FRAMES
                            THEN falseRun + 1 ELSE falseRun
        /\ ref' = RefOf(update(RefState, fire_confirmed, [startRaises |-> FALSE]))

\* self.detector.detect(frame): the result and the push onto the history,
\* or the exception of cv2.cvtColor with nothing returned and nothing pushed.
Detect(fr) ==
    IF cvtColorRaises(fr)
    THEN /\ fault' = "cv2.error"
         /\ UNCHANGED <<detection_result, detection_history>>
    ELSE LET r == detect(fr) IN
         /\ fault' = "none"
         /\ detection_result' = r
         /\ detection_history' = deque_append(detection_history, r.fire_detected, K)

\* Mutant: update is given the frame's own fire_detected.
FrameStep_unconfirmed(fr) ==
    /\ Detect(fr)
    /\ Update(detect(fr).fire_detected)

\* FireAlarmSystem.run, one frame: detect, is_fire_confirmed, update.
FrameStep(fr) ==
    /\ Detect(fr)
    /\ Update(is_fire_confirmed(
            deque_append(detection_history, detect(fr).fire_detected, K), K))

Frame(fr) ==
    /\ FrameStep(fr)
    /\ UNCHANGED dethist

\* FireAlarmSystem.run, key 's': self.alarm_manager.toggle_sound()
ToggleSound ==
    \E f \in (IF sound_enabled THEN NoFaults ELSE Faults) :
        /\ Ran(toggle_sound(State, f), "toggle_sound")
        /\ UNCHANGED <<falseRun, ref>>
        /\ UNCHANGED <<detvars, dethist>>

\* FireDetector.reset
ResetDetector ==
    /\ detection_history' = <<>>
    /\ arrivals' = <<>>
    /\ trueRun' = 0
    /\ UNCHANGED <<detection_result, fault, frame>>

\* What the detect call on fr adds to the detector's history variables.
Observed(fr) ==
    /\ frame' = fr
    /\ IF cvtColorRaises(fr)
       THEN UNCHANGED <<arrivals, trueRun>>
       ELSE LET x == detect(fr).fire_detected
                a == Append(arrivals, x)
            IN /\ arrivals' = IF Len(a) > K + 1 THEN Tail(a) ELSE a
               /\ trueRun' = IF ~x THEN 0
                             ELSE IF trueRun < K THEN trueRun + 1 ELSE trueRun

\* One frame of the frame loop, with the detector's history variables kept.
FrameObserved(fr) ==
    /\ FrameStep(fr)
    /\ Observed(fr)

\* FireAlarmSystem.run, key 'r': self.detector.reset(), then
\* self.alarm_manager.stop_alarm()
Reset ==
    \E f \in NoFaults :
        /\ ResetDetector
        /\ Ran(stop_alarm(State, f), "reset")
        /\ UNCHANGED falseRun
        /\ ref' = RefOf(stop_alarm(RefState, f))

\* The detector alone: one detect call, one reset call.
DetectOnly(fr) ==
    /\ Detect(fr)
    /\ Observed(fr)
    /\ UNCHANGED <<progvars, histvars, envvars>>
    /\ UNCHANGED <<gamevars, bankvars>>

ResetDetectorOnly ==
    /\ ResetDetector
    /\ UNCHANGED <<progvars, histvars, envvars>>
    /\ UNCHANGED <<gamevars, bankvars>>

\* play_loop: while self.is_playing and self.alarm_active
LoopCheck(m) ==
    /\ threads[<<"check", m>>] > 0
    /\ IF is_playing /\ alarm_active
       THEN threads' = Move(threads, <<"check", m>>,
                            <<"popen", IF m = "stopped" THEN "resumed" ELSE m>>)
       ELSE threads' = [threads EXCEPT ![<<"check", m>>] = @ - 1]
    /\ UNCHANGED <<AUDIO_METHOD, mixer_ok, sound_loaded, alarm_active, is_playing, sound_enabled,
                   no_fire_counter, audio_process, music>>
    /\ UNCHANGED histvars
    /\ UNCHANGED <<detvars, dethist, envvars>>
    /\ UNCHANGED <<gamevars, bankvars>>

\* play_loop: self.audio_process = subprocess.Popen(...), or Popen raises and
\* the loop breaks.
LoopPopen(m) ==
    /\ threads[<<"popen", m>>] > 0
    /\ \E raises \in BOOLEAN :
        IF raises
        THEN /\ threads' = [threads EXCEPT ![<<"popen", m>>] = @ - 1]
             /\ UNCHANGED audio_process
        ELSE /\ threads' = Move(threads, <<"popen", m>>, <<"playing", m>>)
             /\ audio_process' = m
    /\ UNCHANGED <<AUDIO_METHOD, mixer_ok, sound_loaded, alarm_active, is_playing, sound_enabled,
                   no_fire_counter, music>>
    /\ UNCHANGED histvars
    /\ UNCHANGED <<detvars, dethist, envvars>>
    /\ UNCHANGED <<gamevars, bankvars>>

\* play_loop: self.audio_process.wait() returns after the clip has played.
\* audio_process keeps the handle of the process that exited when it is the
\* one this thread assigned.
PlaybackEnds(m) ==
    /\ threads[<<"playing", m>>] > 0
    /\ threads' = Move(threads, <<"playing", m>>, <<"check", m>>)
    /\ \E mine \in BOOLEAN :
        /\ mine => audio_process = m
        /\ ~mine => (audio_process # m \/ threads[<<"playing", m>>] > 1)
        /\ audio_process' = IF mine THEN Exited ELSE audio_process
    /\ UNCHANGED <<AUDIO_METHOD, mixer_ok, sound_loaded, alarm_active, is_playing, sound_enabled,
                   no_fire_counter, music>>
    /\ UNCHANGED histvars
    /\ UNCHANGED <<detvars, dethist, envvars>>
    /\ UNCHANGED <<gamevars, bankvars>>

\* ------------------------------------------------------------ specification

\* tic_tac_toe/main.py, module level: the nine buttons, current_player and
\* winner as the script creates them.
Cells == 0..8

InitGame ==
    /\ buttons = [i \in Cells |-> ""]
    /\ bg = [i \in Cells |-> "SystemButtonFace"]
    /\ current_player = "X"
    /\ winner = FALSE
    /\ placed = <<>>
    /\ click = "none"

\* PriyaBank.__init__
InitBank ==
    /\ accounts = <<>>
    /\ citizens = <<>>
    /\ balances = <<>>
    /\ account_numbers = <<>>
    /\ pins = <<>>
    /\ deposit_count = <<>>
    /\ loans = <<>>
    /\ bank_op = "none"
    /\ bank_pre = <<>>

\* FireDetector.__init__
InitDetector ==
    /\ detection_history = <<>>
    /\ detection_result = NoResult
    /\ fault = "none"
    /\ frame = NoFrame
    /\ arrivals = <<>>
    /\ trueRun = 0

\* AlarmManager.__init__
InitAlarm ==
    /\ AUDIO_METHOD \in AudioMethods
    /\ \E fileExists \in BOOLEAN, loadOk \in BOOLEAN, win32 \in BOOLEAN :
        /\ (AUDIO_METHOD = "windows" => win32)
        /\ mixer_ok = (AUDIO_METHOD = "pygame" /\ fileExists /\ loadOk)
        /\ sound_loaded = InitSoundLoaded(AUDIO_METHOD, fileExists, loadOk, win32)
        /\ asset = InitAsset(AUDIO_METHOD, fileExists, loadOk)
    /\ alarm_active = FALSE
    /\ is_playing = FALSE
    /\ sound_enabled = TRUE
    /\ no_fire_counter = 0
    /\ audio_process = None
    /\ threads = [st \in LoopStates |-> 0]
    /\ music = FALSE
    /\ started = 0
    /\ startError = FALSE
    /\ propagated = FALSE
    /\ lastOp = "init"
    /\ pre = Snapshot
    /\ ret = "None"
    /\ falseRun = 0
    /\ twoBack = "na"
    /\ ref = [alarm_active |-> FALSE, no_fire_counter |-> 0]

Init ==
    /\ K = CONSECUTIVE_FRAMES
    /\ InitDetector
    /\ InitAlarm
    /\ InitGame
    /\ InitBank

Next ==
    \/ \E fr \in LoopFrames : Frame(fr)
    \/ ToggleSound
    \/ Reset
    \/ \E m \in Marks : LoopCheck(m)
    \/ \E m \in Marks : LoopPopen(m)
    \/ \E m \in Marks : PlaybackEnds(m)

Spec == Init /\ [][Next]_vars

\* The frame loop while the camera keeps delivering frames (cap.read()
\* returns one in every pass of `while self.running`), on the machines where
\* the sound is played by pygame or not at all: no play_loop thread.
LiveInit ==
    /\ Init
    /\ sound_loaded => (AUDIO_METHOD = "pygame" /\ mixer_ok)

LiveNext ==
    \/ \E fr \in LoopFrames : Frame(fr)
    \/ ToggleSound
    \/ Reset

SpecLive == LiveInit /\ [][LiveNext]_vars /\ WF_vars(\E fr \in LoopFrames : Frame(fr))

\* The detector alone, configured with each CONSECUTIVE_FRAMES up to MaxK and
\* fed every frame.
DetectorInit ==
    /\ K \in 1..MaxK
    /\ InitDetector
    /\ InitAlarm
    /\ InitGame
    /\ InitBank
    /\ AUDIO_METHOD = "none"
    /\ asset = "ok"

DetectorNext ==
    \/ \E fr \in Frames \cup MalformedFrames : DetectOnly(fr)
    \/ ResetDetectorOnly

SpecDetector == DetectorInit /\ [][DetectorNext]_vars

\* The frame loop with CONSECUTIVE_FRAMES configured to 1..MaxK, on a machine
\* without an audio backend (no pygame, not Windows): no playback thread.
LoopInit ==
    /\ K \in 1..MaxK
    /\ InitDetector
    /\ InitAlarm
    /\ InitGame
    /\ InitBank
    /\ AUDIO_METHOD = "none"

LoopNext ==
    \/ \E fr \in LoopFrames : FrameObserved(fr)
    \/ ToggleSound
    \/ Reset

SpecLoop == LoopInit /\ [][LoopNext]_vars

TypeOK ==
    /\ AUDIO_METHOD \in AudioMethods
    /\ mixer_ok \in BOOLEAN
    /\ sound_loaded \in BOOLEAN
    /\ alarm_active \in BOOLEAN
    /\ is_playing \in BOOLEAN
    /\ sound_enabled \in BOOLEAN
    /\ no_fire_counter \in 0..COOLDOWN_FRAMES
    /\ audio_process \in {None, Exited} \cup Marks
    /\ threads \in [LoopStates -> 0..MaxThreads]
    /\ NumThreads(threads) <= MaxThreads
    /\ music \in BOOLEAN
    /\ K \in 1..MaxK
    /\ detection_history \in SeqsUpTo(BOOLEAN, K)
    /\ asset \in {"missing", "load_failed", "ok"}

\* Sanity: audio_process names a running process only while a thread waits on it.
HandleOK == audio_process \in Marks => threads[<<"playing", audio_process>>] > 0

\* ------------------------------------------------------------ claims

\* The playback loops that are running or can still produce audio: the
\* threads past their while condition, the threads whose next test of it
\* passes, and the looping pygame music.
LiveLoops ==
    SumOver(threads, {"popen", "playing"} \X Marks)
    + (IF is_playing /\ alarm_active THEN SumOver(threads, {"check"} \X Marks) ELSE 0)
    + (IF music THEN 1 ELSE 0)

\* C1: from Idle, one update(True) makes the alarm Active with streak 0 and,
\* when sound is enabled and loaded, marks the session playing and starts
\* exactly one playback (none only when the start itself raised).
C1_IdleUpdateTrueActivates ==
    (lastOp = "update_true" /\ ~pre.alarm_active) =>
        /\ alarm_active
        /\ no_fire_counter = 0
        /\ (pre.sound_enabled /\ sound_loaded) =>
               /\ is_playing
               /\ started <= 1
               /\ (~startError => started = 1)
        /\ ~(pre.sound_enabled /\ sound_loaded) => (~is_playing /\ started = 0)

C1_Witness ==
    /\ lastOp = "update_true" /\ ~pre.alarm_active
    /\ sound_enabled /\ sound_loaded /\ is_playing /\ started = 1
    /\ SumOver(threads, {<<"check", "live">>}) = 1

\* C2: an update(False) on an Active alarm leaves it Active exactly while
\* fewer than COOLDOWN_FRAMES of them have come in a row; the
\* COOLDOWN_FRAMES-th makes it Idle with the session stopped; update(True)
\* never deactivates.
C2_CooldownHysteresis ==
    /\ (lastOp = "update_false" /\ pre.alarm_active) =>
           /\ alarm_active <=> falseRun < COOLDOWN_FRAMES
           /\ ~alarm_active => ~is_playing
    /\ lastOp = "update_true" => alarm_active

C2_Witness ==
    /\ lastOp = "update_false" /\ pre.alarm_active /\ pre.is_playing
    /\ ~alarm_active /\ ~is_playing /\ falseRun = COOLDOWN_FRAMES

\* C3 (as claimed): at most one playback loop is running or can still
\* produce audio, in every reachable state.
C3_AtMostOneLiveLoop == LiveLoops <= 1

\* C4 (as claimed): once _stop_sound has returned, no play_loop thread that
\* was alive at that moment has a playback process playing.
C4_NoAudioAfterStop ==
    \A m \in {"stopped", "resumed"} : threads[<<"playing", m>>] = 0

\* C5 (as claimed): a play_loop thread whose session was stopped leaves its
\* loop at its next test of the while condition, also when a new session has
\* been started in between: none passes the test again.
C5_StoppedLoopExitsAtNextCheck ==
    \A pc \in Pcs : threads[<<pc, "resumed">>] = 0

\* C6: update(True) on an Active alarm keeps it Active with streak 0, and on
\* an Active alarm the streak counts exactly the update(False) calls since
\* the last update(True), so COOLDOWN_FRAMES of them are needed after it.
C6_UpdateTrueResetsStreak ==
    /\ (lastOp = "update_true" /\ pre.alarm_active) =>
           (alarm_active /\ no_fire_counter = 0)
    /\ alarm_active => no_fire_counter = falseRun
    /\ (lastOp = "update_false" /\ pre.alarm_active /\ ~alarm_active) =>
           falseRun = COOLDOWN_FRAMES

C6_Witness ==
    /\ lastOp = "update_true" /\ pre.alarm_active /\ pre.no_fire_counter > 0
    /\ alarm_active /\ no_fire_counter = 0

\* C7: update(True) on an Active alarm leaves it Active, sets the streak to 0
\* and neither starts nor stops any playback.
C7_ActiveUpdateTrueIdempotent ==
    [][(Update(TRUE) /\ alarm_active) =>
          /\ alarm_active'
          /\ no_fire_counter' = 0
          /\ started' = 0
          /\ UNCHANGED <<is_playing, sound_enabled, audio_process, threads, music>>]_vars

C7_Witness ==
    /\ lastOp = "update_true" /\ pre.alarm_active /\ ~pre.is_playing
    /\ alarm_active /\ ~sound_enabled /\ sound_loaded

\* C8: update(False) on an Idle alarm changes nothing of the manager.
C8_IdleUpdateFalseNoEffect ==
    [][(Update(FALSE) /\ ~alarm_active) => (UNCHANGED progvars /\ started' = 0)]_vars

C8_Witness ==
    /\ lastOp = "update_false" /\ ~pre.alarm_active
    /\ ~alarm_active /\ no_fire_counter > 0

\* C9: toggle_sound on an Active alarm with sound enabled stops the session
\* and leaves the alarm Active; toggle_sound on an Active muted alarm marks
\* the session playing again and starts one playback, never two.
C9_ToggleWhileActive ==
    /\ (lastOp = "toggle_sound" /\ pre.alarm_active /\ pre.sound_enabled) =>
           (alarm_active /\ ~sound_enabled /\ ~is_playing /\ started = 0)
    /\ (lastOp = "toggle_sound" /\ pre.alarm_active /\ ~pre.sound_enabled) =>
           /\ alarm_active /\ sound_enabled
           /\ started <= 1
           /\ sound_loaded => (is_playing /\ (~startError => started = 1))

C9_Witness ==
    /\ lastOp = "toggle_sound" /\ twoBack = "on"
    /\ pre.alarm_active /\ ~pre.sound_enabled
    /\ alarm_active /\ is_playing /\ started = 1

\* C10: toggle_sound flips sound_enabled and returns the new value; two
\* toggle_sound calls in a row restore the value, Active or Idle.
C10_ToggleFlipsAndReturns ==
    /\ lastOp = "toggle_sound" =>
           /\ sound_enabled = ~pre.sound_enabled
           /\ ret = (IF sound_enabled THEN "True" ELSE "False")
    /\ (lastOp = "toggle_sound" /\ twoBack # "na") =>
           sound_enabled = (twoBack = "on")

C10_Witness ==
    /\ lastOp = "toggle_sound" /\ twoBack = "off"
    /\ ~sound_enabled /\ ret = "False" /\ ~alarm_active

\* ------------------------------------------------------------ operator reset, audio failures

\* C11: after the operator reset (the detector's reset, then the alarm's
\* stop), from whatever state it was pressed in, the alarm is Idle, no audio
\* session is flagged and the confirmation buffer is empty.
C11_ResetLeavesIdleSilentEmpty ==
    lastOp = "reset" =>
        /\ ~alarm_active
        /\ ~is_playing
        /\ detection_history = <<>>

\* Reset was pressed with the alarm sounding after a fire frame.
C11_Witness ==
    /\ lastOp = "reset"
    /\ pre.alarm_active /\ pre.is_playing
    /\ detection_result.fire_detected
    /\ ~alarm_active /\ ~is_playing /\ detection_history = <<>>

\* C12 as stated: the alarm reset clears the no-fire streak to 0 and leaves
\* the sound-enabled flag as it was.
C12_ResetClearsStreak ==
    lastOp = "reset" =>
        /\ no_fire_counter = 0
        /\ sound_enabled = pre.sound_enabled

\* C12, amended: the alarm reset leaves both the no-fire streak and the
\* sound-enabled flag as they were; the streak is cleared to 0 when the alarm
\* is next raised.
C12_ResetKeepsStreakAndSound ==
    /\ lastOp = "reset" =>
            /\ no_fire_counter = pre.no_fire_counter
            /\ sound_enabled = pre.sound_enabled
    /\ (lastOp = "update_true" /\ ~pre.alarm_active) => no_fire_counter = 0

\* Reset was pressed during the cooldown with the sound muted.
C12_Witness ==
    /\ lastOp = "reset"
    /\ pre.alarm_active /\ pre.no_fire_counter > 0 /\ ~pre.sound_enabled
    /\ no_fire_counter = pre.no_fire_counter /\ ~sound_enabled

\* The sound did not come on: no file loaded, Thread.start raised, or the
\* session is flagged with nothing playing (every Popen raised).
AudioFailed ==
    \/ ~sound_loaded
    \/ startError
    \/ is_playing /\ NumThreads(threads) = 0 /\ ~music

\* C13: when update(true) finds the alarm Idle and the sound cannot be
\* started (no backend or file, or the start raises), the alarm is Active
\* with a streak of 0 all the same, and stays so as the playback fails.
C13_AudioFailureKeepsActivation ==
    (lastOp = "update_true" /\ ~pre.alarm_active /\ AudioFailed) =>
        /\ alarm_active
        /\ no_fire_counter = 0

\* update(true) raised the alarm while Thread.start raised.
C13_Witness ==
    /\ lastOp = "update_true" /\ ~pre.alarm_active
    /\ startError
    /\ alarm_active /\ no_fire_counter = 0

\* No sound, and none was ever started.
Inert ==
    /\ ~is_playing
    /\ NumThreads(threads) = 0
    /\ ~music
    /\ started = 0
    /\ audio_process = None

\* C14 as stated: if the sound file was missing or its load failed at
\* construction, the session is inert for ever (never flagged as playing,
\* no thread and no backend playback ever started) and the alarm is raised
\* all the same.
C14_UnloadedAssetInert ==
    asset \in {"missing", "load_failed"} =>
        /\ Inert
        /\ lastOp = "update_true" => alarm_active

\* C14, amended: if sound_loaded is false after construction (the file is
\* missing, there is no audio method, or the load failed and the platform
\* has no Windows playback to fall back on), the session is inert for ever
\* and the alarm is raised all the same.
C14_NotLoadedInert ==
    ~sound_loaded =>
        /\ Inert
        /\ lastOp = "update_true" => alarm_active

\* Without a loaded sound the alarm was raised and the sound toggled off and
\* on again.
C14_Witness ==
    /\ ~sound_loaded /\ asset = "missing" /\ AUDIO_METHOD = "windows"
    /\ lastOp = "toggle_sound" /\ twoBack = "on"
    /\ alarm_active /\ sound_enabled
    /\ Inert

\* C15: _stop_sound called twice in a row raises nothing, leaves is_playing
\* false after each call, and the second call changes nothing; nor does any
\* call made while no session is flagged, whatever a stopped thread has done
\* since.
C15_StopIdempotent ==
    \A f \in NoFaults :
        LET s1 == _stop_sound(State, f)
            s2 == _stop_sound(s1, f)
        IN /\ ~s1.is_playing /\ ~s1.error
           /\ ~s2.is_playing /\ ~s2.error
           /\ s2 = s1
           /\ ~is_playing => s1 = State

\* A session was stopped and a thread it left behind has spawned a process
\* since: the next stop finds a handle and no session.
C15_Witness ==
    /\ lastOp = "toggle_sound" /\ pre.is_playing
    /\ ~is_playing
    /\ audio_process # None
    /\ _stop_sound(State, [startRaises |-> FALSE]) = State

\* ------------------------------------------------------------ detector

\* The last n entries of q.
LastN(q, n) == SubSeq(q, Len(q) - n + 1, Len(q))

Min(a, b) == IF a < b THEN a ELSE b

\* C16: is_fire_confirmed is false until K detect calls in a row have
\* returned fire_detected=True, and true from then on while they keep doing
\* so; one False (or a reset) starts the run over.
C16_ConfirmedAfterKInARow ==
    is_fire_confirmed(detection_history, K) <=> (trueRun = K)

\* K >= 2, a False followed by K-1 Trues: the buffer is full, the run is one
\* short and nothing is confirmed.
C16_Witness ==
    /\ K >= 2
    /\ Len(detection_history) = K
    /\ ~detection_history[1]
    /\ trueRun = K - 1
    /\ ~is_fire_confirmed(detection_history, K)

\* C17: is_fire_confirmed is true exactly when the buffer holds K entries,
\* all of them true; with fewer than K entries it is false.
C17_ConfirmedIffFullAndAllTrue ==
    /\ is_fire_confirmed(detection_history, K)
            <=> (Len(detection_history) = K /\ \A i \in 1..K : detection_history[i])
    /\ Len(detection_history) < K => ~is_fire_confirmed(detection_history, K)

\* K >= 2 and confirmed, with a full buffer of trues.
C17_Witness ==
    /\ K >= 2
    /\ is_fire_confirmed(detection_history, K)
    /\ detection_history = [i \in 1..K |-> TRUE]

\* C18: the buffer never holds more than K entries, and it is the last K
\* values pushed since the last reset (all of them while fewer than K were
\* pushed), in the order they arrived: a push onto a full buffer drops the
\* oldest entry.
C18_BoundedFifo ==
    /\ Len(detection_history) <= K
    /\ detection_history = LastN(arrivals, Min(K, Len(arrivals)))

\* K >= 2, more than K pushes, and the dropped entry differed from the one
\* that is oldest now, which differs from the newest.
C18_Witness ==
    /\ K >= 2
    /\ Len(arrivals) = K + 1
    /\ arrivals[1] # arrivals[2]
    /\ arrivals[2] # arrivals[K + 1]
    /\ detection_history = Tail(arrivals)

\* C19: a detect call pushes exactly one entry, equal to the fire_detected
\* it returns, which is true exactly when a contour of the frame passes the
\* area filter; every step that changes the buffer is a detect call or the
\* detector's reset.
C19_DetectPushesItsResult ==
    [][ /\ \A fr \in LoopFrames : Frame(fr) =>
              /\ Len(detection_history') = Min(Len(detection_history) + 1, K)
              /\ detection_history'[Len(detection_history')] = detection_result'.fire_detected
              /\ SubSeq(detection_history', 1, Len(detection_history') - 1)
                    = LastN(detection_history, Len(detection_history') - 1)
              /\ detection_result'.fire_detected
                    <=> \E i \in 1..Len(fr.contours) : fr.contours[i] >= FIRE_MIN_AREA
        /\ detection_history' # detection_history =>
              \/ \E fr \in LoopFrames : Frame(fr)
              \/ Reset /\ detection_history' = <<>>
      ]_vars

\* A frame with no fire was pushed as False while the alarm of an earlier
\* fire frame is still active.
C19_Witness ==
    /\ lastOp = "update_false"
    /\ ~detection_result.fire_detected
    /\ detection_history = <<FALSE>>
    /\ alarm_active

\* C20: for a frame with no candidate region, detect returns
\* fire_detected=False, fire_area=0, no bounding boxes and confidence 0.
C20_EmptyFrameNoFire ==
    (frame.contours = <<>> /\ frame # NoFrame /\ ~cvtColorRaises(frame)) =>
        /\ ~detection_result.fire_detected
        /\ detection_result.fire_area = 0
        /\ detection_result.bounding_boxes = <<>>
        /\ detection_result.confidence.num = 0

\* An empty frame came after a fire was confirmed.
C20_Witness ==
    /\ frame = [shape |-> FrameShape, channels |-> BGR, contours |-> <<>>]
    /\ Len(arrivals) >= 2
    /\ arrivals[Len(arrivals) - 1]
    /\ ~detection_result.fire_detected

\* The contours of the frame that are at least FIRE_MIN_AREA, in order.
BigEnough(fr) == SelectSeq(fr.contours, LAMBDA c : c >= FIRE_MIN_AREA)

\* The last detect call returned a result for `frame`.
Returned == frame # NoFrame /\ fault = "none"

\* C21: contours smaller than FIRE_MIN_AREA give no bounding box, add
\* nothing to fire_area and have no say in fire_detected: the result is the
\* one computed from the contours of area at least FIRE_MIN_AREA alone.
C21_SmallRegionsIgnored ==
    Returned =>
        LET big == BigEnough(frame) IN
        /\ detection_result.bounding_boxes = [i \in 1..Len(big) |-> boundingRect(big[i])]
        /\ detection_result.fire_area = SumSeq(big)
        /\ detection_result.fire_detected <=> (big # <<>>)
        /\ detection_result = detect([frame EXCEPT !.contours = big])

\* A frame with a contour just below the filter and one exactly at it: one
\* box, the area of the second alone.
C21_Witness ==
    /\ Returned
    /\ frame.contours = <<FIRE_MIN_AREA - 1, FIRE_MIN_AREA>>
    /\ detection_result.bounding_boxes = <<boundingRect(FIRE_MIN_AREA)>>
    /\ detection_result.fire_area = FIRE_MIN_AREA
    /\ detection_result.fire_detected

\* C22: the confidence is min(surviving area / (frame area * 0.1), 1.0): it
\* lies in [0, 1], it is 1 exactly when ten times the surviving area is at
\* least the frame area, it is 10 * area / frame area below that, and so one
\* half at 5% coverage.
C22_ConfidenceFormula ==
    Returned =>
        LET area == SumSeq(BigEnough(frame))
            frame_area == frame.shape[1] * frame.shape[2]
            c == detection_result.confidence
        IN /\ c.den > 0 /\ 0 <= c.num /\ c.num <= c.den
           /\ (c.num = c.den) <=> (10 * area >= frame_area)
           /\ 10 * area < frame_area => c = [num |-> 10 * area, den |-> frame_area]
           /\ 20 * area = frame_area => 2 * c.num = c.den

\* Exactly 5% of the frame is fire: the confidence is one half.
C22_Witness ==
    /\ Returned
    /\ 20 * detection_result.fire_area = frame.shape[1] * frame.shape[2]
    /\ 2 * detection_result.confidence.num = detection_result.confidence.den

\* C23: for a frame that is empty or has the wrong number of channels,
\* detect raises nothing to its caller and returns fire_detected=False.
C23_MalformedFrameNoFault ==
    (frame # NoFrame /\ cvtColorRaises(frame)) =>
        /\ fault = "none"
        /\ ~detection_result.fire_detected

\* ------------------------------------------------------------ playback failures

\* A play_loop thread runs a statement of its own: the while test, or the
\* Popen with its assignment and its except clause.
LoopStatement == \E m \in Marks : LoopCheck(m) \/ LoopPopen(m)

\* C24: an iteration of play_loop that fails does not end the loop: while
\* is_playing and alarm_active are set, the thread is still there after it.
C24_FailedIterationContinues ==
    [][ ((\E m \in Marks : LoopPopen(m)) /\ is_playing' /\ alarm_active')
            => NumThreads(threads') >= NumThreads(threads) ]_vars

\* C25: once a play_loop has given up after failing, the session reports
\* itself inert: is_playing is false.
C25_GivenUpMeansNotPlaying ==
    [][ ((\E m \in Marks : LoopPopen(m)) /\ NumThreads(threads') < NumThreads(threads))
            => ~is_playing' ]_vars

\* C26: the playback path writes no field of the manager.
C26_PlaybackWritesNothing ==
    [][ LoopStatement =>
            UNCHANGED <<alarm_active, is_playing, sound_enabled, no_fire_counter,
                        sound_loaded, audio_process>> ]_vars

\* C27: whatever the audio backend does (the start raises, pygame's play or
\* stop raises, Popen raises in a thread), no exception leaves update,
\* toggle_sound or the reset: the frame loop is never ended by one.
C27_NoAudioErrorPropagates ==
    /\ ~propagated
    /\ lastOp = "toggle_sound" => ret \in {"True", "False"}

\* toggle_sound turned the sound on with the alarm active, the start raised
\* and was printed, and on a mixer that cannot play or stop either.
C27_Witness ==
    /\ lastOp = "toggle_sound" /\ pre.alarm_active /\ ~pre.sound_enabled
    /\ startError
    /\ AUDIO_METHOD = "pygame" /\ ~mixer_ok
    /\ ~propagated /\ ret = "True"

\* ------------------------------------------------------------ frame loop

\* The last handler was the update of a frame, which raised the alarm.
Activated ==
    /\ lastOp \in {"update_true", "update_false"}
    /\ ~pre.alarm_active
    /\ alarm_active

\* C28: in the frame loop the alarm goes from Idle to Active in a frame
\* only if the K most recent detect calls, that frame's included, all
\* returned fire_detected=True; after fewer than K positive frames in a row
\* the alarm is not raised.
C28_ActivationNeedsKPositives ==
    /\ Activated => (trueRun = K /\ detection_history = [i \in 1..K |-> TRUE])
    /\ (lastOp \in {"update_true", "update_false"} /\ ~pre.alarm_active /\ trueRun < K)
            => ~alarm_active

\* K >= 2: a negative frame, then K positive frames, and the K-th raised the
\* alarm.
C28_Witness ==
    /\ K >= 2
    /\ Activated
    /\ Len(arrivals) = K + 1 /\ ~arrivals[1]
    /\ trueRun = K

\* C29: if from some frame on no update receives fire_confirmed=True while
\* frames keep arriving, the alarm is eventually Idle for good and no audio
\* session is flagged; the update that lowers it is the COOLDOWN_FRAMES-th
\* update(False) since the last update(True), and no earlier one does.
C29_CooldownEndsAlarm ==
    /\ (<>[][~Update(TRUE)]_vars) => <>[](~alarm_active /\ ~is_playing)
    /\ [](alarm_active => falseRun < COOLDOWN_FRAMES)
    /\ []((lastOp = "update_false" /\ pre.alarm_active /\ ~alarm_active)
            => (falseRun = COOLDOWN_FRAMES /\ ~is_playing))

\* The alarm was sounding and the COOLDOWN_FRAMES-th frame without fire
\* lowered it and stopped the session.
C29_Witness ==
    /\ lastOp = "update_false"
    /\ pre.alarm_active /\ pre.is_playing
    /\ pre.no_fire_counter = COOLDOWN_FRAMES - 1
    /\ falseRun = COOLDOWN_FRAMES
    /\ ~alarm_active /\ ~is_playing

\* C30: the alarm state does not depend on the audio: alarm_active and the
\* no-fire streak are, after every step, those of a manager given the same
\* updates and resets with its sound off and nothing to play, whatever the
\* sound-enabled flag, the toggle_sound calls, the loaded sound and the
\* failures of the audio start and stop.
C30_AlarmIndependentOfAudio ==
    /\ alarm_active = ref.alarm_active
    /\ no_fire_counter = ref.no_fire_counter

\* Midway through a cooldown, after a toggle, with a session flagged and its
\* playback gone: the alarm state is that of the silent manager.
C30_Witness ==
    /\ lastOp = "update_false" /\ twoBack # "na"
    /\ alarm_active /\ no_fire_counter > 0
    /\ sound_enabled /\ is_playing /\ NumThreads(threads) = 0 /\ ~music
    /\ ref = [alarm_active |-> TRUE, no_fire_counter |-> no_fire_counter]

\* ------------------------------------------------------------ session flag

\* The last step of the frame loop that called the manager.
Completed == lastOp \in {"update_true", "update_false", "toggle_sound", "reset"}

\* C31: after every completed update, toggle_sound or reset, is_playing is
\* true exactly when the alarm is active, the sound is enabled and the sound
\* was loaded; no session is marked playing while the alarm is idle or the
\* sound is muted.
C31_PlayingIffActiveEnabledLoaded ==
    Completed =>
        /\ is_playing <=> (alarm_active /\ sound_enabled /\ sound_loaded)
        /\ ~alarm_active => ~is_playing
        /\ ~sound_enabled => ~is_playing

\* The sound was turned back on during an alarm on Windows playback, the
\* start of the thread raised, and the session is marked playing all the same.
C31_Witness ==
    /\ lastOp = "toggle_sound" /\ ~pre.sound_enabled /\ ~pre.is_playing
    /\ alarm_active /\ sound_enabled /\ sound_loaded
    /\ startError
    /\ is_playing

\* C32: in every reachable state 0 <= no_fire_counter <= COOLDOWN_FRAMES, and
\* whenever the alarm is active after a completed update, toggle_sound or
\* reset, no_fire_counter < COOLDOWN_FRAMES.
C32_StreakBounded ==
    /\ no_fire_counter \in Int
    /\ 0 <= no_fire_counter
    /\ no_fire_counter <= COOLDOWN_FRAMES
    /\ (Completed /\ alarm_active) => no_fire_counter < COOLDOWN_FRAMES

\* The frame that completes the cooldown: the streak goes from
\* COOLDOWN_FRAMES - 1 on an active alarm to COOLDOWN_FRAMES on an idle one.
C32_Witness ==
    /\ lastOp = "update_false"
    /\ pre.alarm_active /\ pre.no_fire_counter = COOLDOWN_FRAMES - 1
    /\ ~alarm_active /\ no_fire_counter = COOLDOWN_FRAMES

\* C33: when the alarm is raised while the sound is disabled, no session is
\* started; a toggle_sound that turns the sound back on starts a session
\* (of the loaded sound) if and only if the alarm is active at that moment:
\* after a cooldown or a reset, turning the sound on starts nothing.
C33_MutedActivationAndReenable ==
    /\ (lastOp = "update_true" /\ ~pre.alarm_active /\ ~pre.sound_enabled) =>
           (alarm_active /\ ~is_playing /\ started = 0 /\ ~startError)
    /\ (lastOp = "toggle_sound" /\ ~pre.sound_enabled) =>
           /\ sound_enabled
           /\ is_playing <=> (pre.alarm_active /\ sound_loaded)
           /\ started > 0 => pre.alarm_active
           /\ (pre.alarm_active /\ sound_loaded /\ ~startError) => started = 1
           /\ ~pre.alarm_active => (~alarm_active /\ started = 0 /\ ~startError)

\* The sound is turned on during an alarm that was silent until then, and one
\* playback starts.
C33_Witness ==
    /\ lastOp = "toggle_sound"
    /\ ~pre.sound_enabled /\ pre.alarm_active /\ ~pre.is_playing
    /\ alarm_active /\ sound_enabled /\ is_playing /\ started = 1

\* C34: toggle_sound on an idle alarm changes only sound_enabled: the alarm
\* stays idle, no_fire_counter keeps its value, and no session is started or
\* stopped (is_playing, the playback threads, the process handle and the
\* pygame music are as before).
C34_IdleToggleChangesOnlyFlag ==
    [][(ToggleSound /\ ~alarm_active) =>
            /\ sound_enabled' = ~sound_enabled
            /\ started' = 0 /\ ~startError'
            /\ UNCHANGED <<alarm_active, no_fire_counter, is_playing,
                           audio_process, threads, music, sound_loaded>>]_vars

\* The sound is turned off on an alarm that a reset has made idle in the
\* middle of a cooldown, the streak still standing.
C34_Witness ==
    /\ lastOp = "toggle_sound"
    /\ ~pre.alarm_active /\ pre.sound_enabled /\ pre.no_fire_counter > 0
    /\ ~alarm_active /\ ~sound_enabled /\ ~is_playing
    /\ no_fire_counter = pre.no_fire_counter

\* ------------------------------------------------------------ tic_tac_toe/main.py

\* The game as the handlers see it.
Game == [buttons |-> buttons, bg |-> bg, current_player |-> current_player,
         winner |-> winner]

reset_game(g) ==
    [g EXCEPT !.buttons = [i \in Cells |-> ""],
              !.bg = [i \in Cells |-> "SystemButtonFace"],
              !.current_player = "X",
              !.winner = FALSE]

\* check_winner: winning_combinations, in the order of the list.
winning_combinations ==
    << <<0, 1, 2>>, <<3, 4, 5>>, <<6, 7, 8>>,
       <<0, 3, 6>>, <<1, 4, 7>>, <<2, 5, 8>>,
       <<0, 4, 8>>, <<2, 4, 6>> >>

\* buttons[combo[0]]["text"] == buttons[combo[1]]["text"] == buttons[combo[2]]["text"] != ""
Lined(b, combo) ==
    /\ b[combo[1]] = b[combo[2]]
    /\ b[combo[2]] = b[combo[3]]
    /\ b[combo[3]] # ""

\* The combinations of the list that are lined up on board b.
Wins(b) == {n \in 1..Len(winning_combinations) : Lined(b, winning_combinations[n])}

\* all(button["text"] != "" for button in buttons)
Full(b) == \A i \in Cells : b[i] # ""

\* check_winner; replay is the answer to messagebox.askyesno, read only when
\* the dialog is shown.
check_winner(g, replay) ==
    IF Wins(g.buttons) # {}
    THEN LET n == CHOOSE m \in Wins(g.buttons) : \A k \in Wins(g.buttons) : m <= k
             combo == winning_combinations[n]
             g1 == [g EXCEPT !.bg = [i \in Cells |->
                                        IF i \in {combo[1], combo[2], combo[3]}
                                        THEN "green" ELSE @[i]],
                             !.winner = TRUE]
         IN IF replay THEN reset_game(g1) ELSE g1
    ELSE IF Full(g.buttons) /\ ~g.winner
         THEN LET g1 == [g EXCEPT !.winner = TRUE]
              IN IF replay THEN reset_game(g1) ELSE g1
         ELSE g

toggle_player(g) ==
    [g EXCEPT !.current_player = IF @ = "X" THEN "O" ELSE "X"]

\* Mutant: the click marks the cell whether or not it is taken.
button_click_any_cell(g, index, replay) ==
    IF ~g.winner
    THEN toggle_player(check_winner([g EXCEPT !.buttons[index] = g.current_player], replay))
    ELSE g

button_click(g, index, replay) ==
    IF g.buttons[index] = "" /\ ~g.winner
    THEN toggle_player(check_winner([g EXCEPT !.buttons[index] = g.current_player], replay))
    ELSE g

\* The click on cell index put a mark there and check_winner showed its dialog.
Asked(index) ==
    LET b == [buttons EXCEPT ![index] = current_player]
    IN Wins(b) # {} \/ Full(b)

\* The user clicks the button of cell index; the handler runs to its end,
\* the dialog of check_winner answered if it is shown.
ButtonClick(index) ==
    \E replay \in BOOLEAN :
        LET g == button_click(Game, index, replay)
            taken == buttons[index] # ""
            marked == ~taken /\ ~winner
        IN /\ (marked /\ Asked(index)) \/ ~replay
           /\ buttons' = g.buttons
           /\ bg' = g.bg
           /\ current_player' = g.current_player
           /\ winner' = g.winner
           /\ placed' = IF ~marked THEN placed
                        ELSE IF Asked(index) /\ replay THEN <<>>
                        ELSE Append(placed, current_player)
           /\ click' = IF ~marked THEN (IF winner THEN "ignored_over" ELSE "ignored_taken")
                       ELSE IF ~Asked(index) THEN "marked"
                       ELSE IF replay THEN "replayed" ELSE "declined"
           /\ UNCHANGED <<firevars, bankvars>>

\* The fire alarm system as constructed on a machine without an audio backend
\* and never run.
FireParked ==
    /\ K = CONSECUTIVE_FRAMES
    /\ InitDetector
    /\ InitAlarm
    /\ AUDIO_METHOD = "none"
    /\ asset = "missing"

GameInit ==
    /\ FireParked
    /\ InitGame
    /\ InitBank

GameNext == \E index \in Cells : ButtonClick(index)

SpecGame == GameInit /\ [][GameNext]_vars

\* C35: every game, the first and each one started by accepting the replay
\* prompt after a win or a tie, begins with X to move, and the marks put on
\* the board within a game alternate X, O, X, ...
C35_XStartsAndMarksAlternate ==
    /\ (placed = <<>> /\ ~winner) => current_player = "X"
    /\ \A n \in 1..Len(placed) : placed[n] = (IF n % 2 = 1 THEN "X" ELSE "O")

\* C36: a click on a taken cell, or any click once a win or a tie has been
\* declared and the board not reset, leaves the board and current_player as
\* they are; within a game a cell's mark is never replaced: a mark goes away
\* only when reset_game clears the whole board.
C36_IgnoredClicksAndNoOverwrite ==
    [][/\ \A index \in Cells :
            (ButtonClick(index) /\ (buttons[index] # "" \/ winner)) =>
                UNCHANGED <<buttons, current_player, winner, placed>>
       /\ \A index \in Cells :
            (buttons[index] # "" /\ buttons'[index] # buttons[index]) =>
                (buttons' = [i \in Cells |-> ""] /\ placed' = <<>>)]_vars

\* A click on a finished game, a win on the board that was not replayed: the
\* board still holds the winning line and the click was ignored.
C36_Witness ==
    /\ click = "ignored_over"
    /\ winner
    /\ Wins(buttons) # {}
    /\ ~Full(buttons)

\* ------------------------------------------------------------ Bank/Bank.py

\* What the user types is a string: here the sequence of its characters.
\* "sup2" stands for the one character SUPERSCRIPT TWO, a digit for
\* str.isdigit and not for int.
Digits == {"0", "1", "2", "3", "4", "5", "6", "7", "8", "9"}
Letters == {"a", "b", "x"}
SuperDigits == {"sup2"}

DigitValue ==
    ("0" :> 0) @@ ("1" :> 1) @@ ("2" :> 2) @@ ("3" :> 3) @@ ("4" :> 4) @@
    ("5" :> 5) @@ ("6" :> 6) @@ ("7" :> 7) @@ ("8" :> 8) @@ ("9" :> 9)

\* A Python list holds x.
In(q, x) == \E i \in 1..Len(q) : q[i] = x

\* list.index(x), counted from 1.
FirstIndex(q, x) ==
    CHOOSE i \in 1..Len(q) : q[i] = x /\ \A j \in 1..(i - 1) : q[j] # x

\* list.pop(index), counted from 1: the list without that element.
Pop(q, i) == SubSeq(q, 1, i - 1) \o SubSeq(q, i + 1, Len(q))

RECURSIVE strip(_)
strip(t) ==
    IF t = <<>> THEN t
    ELSE IF t[1] = " " THEN strip(Tail(t))
    ELSE IF t[Len(t)] = " " THEN strip(SubSeq(t, 1, Len(t) - 1))
    ELSE t

isalpha(t) == Len(t) > 0 /\ \A i \in 1..Len(t) : t[i] \in Letters

isdigit(t) == Len(t) > 0 /\ \A i \in 1..Len(t) : t[i] \in Digits \cup SuperDigits

RECURSIVE DigitsValue(_)
DigitsValue(t) ==
    IF t = <<>> THEN 0
    ELSE 10 * DigitsValue(SubSeq(t, 1, Len(t) - 1)) + DigitValue[t[Len(t)]]

\* int(t): blanks around and one sign are accepted, then decimal digits only;
\* anything else is a ValueError (ok is FALSE).
ParseInt(t) ==
    LET u == strip(t)
        signed == u # <<>> /\ u[1] \in {"-", "+"}
        body == IF signed THEN Tail(u) ELSE u
        ok == Len(body) > 0 /\ \A i \in 1..Len(body) : body[i] \in Digits
    IN [ok |-> ok,
        value |-> IF ~ok THEN 0
                  ELSE IF signed /\ u[1] = "-" THEN 0 - DigitsValue(body)
                  ELSE DigitsValue(body)]

\* self.manager_pin
manager_pin == 3103
\* withdraw: no withdrawal from a balance of 300 or less
WithdrawFloor == 300
\* apply_loan: deposits needed, and the largest loan
LoanDeposits == 10
LoanLimit == 500000
\* gen_account_number: random.randint(1000, 9999)
NumberLow == 1000
NumberHigh == 9999

\* Bound: how many deposits one account counts (the first is its opening).
MaxDeposits == 2

\* The draws of random.randint: the two ends of the range.
NumberPool == {NumberLow, NumberHigh}

\* The answers typed at the prompts.  NoAnswer is the empty line, and
\* stands for the answer to a prompt the method did not come to.
NoAnswer == <<>>
NameInputs == {<<"a">>, <<"b">>, <<"a", " ">>}
NewNameInputs == NameInputs \cup {<<"1">>}
CitizenInputs == {<<"1">>, <<"2">>, <<"0", "1">>, <<"sup2">>, <<"x">>}
OpeningInputs == {<<"3", "0", "0">>, <<"3", "0", "1">>, <<"0">>}
NewPinInputs == {<<"1", "2", "3", "4">>, <<"0", "0", "4", "2">>, <<"1", "2", "3">>}
PinInputs == {<<"1", "2", "3", "4">>, <<"4", "2">>, <<"x">>}
ManagerPinInputs == {<<"3", "1", "0", "3">>, <<"1", "2", "3", "4">>, <<"x">>}
DepositInputs == {<<"1">>, <<"0">>, <<"-", "1">>}
AmountInputs == {<<"1">>, <<"3", "0", "2">>, <<"0">>, <<"-", "1">>, <<"x">>}

\* int on the strings that are typed, worked out once.
Typed ==
    NewNameInputs \cup CitizenInputs \cup OpeningInputs \cup NewPinInputs \cup PinInputs
    \cup ManagerPinInputs \cup DepositInputs \cup AmountInputs \cup {NoAnswer}
IntOf == [t \in Typed |-> ParseInt(t)]
int(t) == IntOf[t]

\* The PriyaBank instance.
Bank ==
    [accounts |-> accounts, citizens |-> citizens, balances |-> balances,
     account_numbers |-> account_numbers, pins |-> pins,
     deposit_count |-> deposit_count, loans |-> loans, asked |-> 0]

\* gen_account_number, number being the draw of random.randint that is not
\* in account_numbers yet.
gen_account_number(b, number) ==
    [b EXCEPT !.account_numbers = Append(@, number)]

\* open_account, the prompts for citizenship number, deposit and PIN: the
\* answer ends the while loop, or int() raises on it and the handler's except
\* clause ends the call; on any other answer the prompt is repeated.
CitizenExits(b, citizen) ==
    isdigit(citizen) /\ int(citizen).ok /\ ~In(b.citizens, int(citizen).value)
CitizenRaises(citizen) == isdigit(citizen) /\ ~int(citizen).ok
OpeningExits(deposit) == isdigit(deposit) /\ int(deposit).ok /\ int(deposit).value > 0
OpeningRaises(deposit) == isdigit(deposit) /\ ~int(deposit).ok
NewPinExits(pin) == isdigit(pin) /\ Len(pin) = 4 /\ int(pin).ok
NewPinRaises(pin) == isdigit(pin) /\ Len(pin) = 4 /\ ~int(pin).ok

\* open_account on the answers that ended its four prompts.
open_account(b, name, citizen, deposit, pin, number) ==
    IF CitizenRaises(citizen) \/ OpeningRaises(deposit) \/ NewPinRaises(pin)
    THEN b
    ELSE gen_account_number(
            [b EXCEPT !.accounts = Append(@, strip(name)),
                      !.citizens = Append(@, int(citizen).value),
                      !.balances = Append(@, int(deposit).value),
                      !.pins = Append(@, int(pin).value),
                      !.deposit_count = Append(@, 1)],
            number)

\* The method returned after its n-th input() call.
Prompted(b, n) == [b EXCEPT !.asked = n]

\* Mutant: the account's number stays in account_numbers.
delete_account_keeps_number(b, name, pin) ==
    IF In(b.accounts, name)
    THEN LET index == FirstIndex(b.accounts, name)
             p == int(pin)
         IN IF ~p.ok THEN Prompted(b, 2)
            ELSE IF p.value = manager_pin
                 THEN [Prompted(b, 2) EXCEPT !.accounts = Pop(@, index),
                                             !.citizens = Pop(@, index),
                                             !.balances = Pop(@, index),
                                             !.pins = Pop(@, index),
                                             !.deposit_count = Pop(@, index)]
                 ELSE Prompted(b, 2)
    ELSE Prompted(b, 1)

delete_account(b, name, pin) ==
    IF In(b.accounts, name)
    THEN LET index == FirstIndex(b.accounts, name)
             p == int(pin)
         IN IF ~p.ok THEN Prompted(b, 2)
            ELSE IF p.value = manager_pin
                 THEN [Prompted(b, 2) EXCEPT !.accounts = Pop(@, index),
                                             !.citizens = Pop(@, index),
                                             !.balances = Pop(@, index),
                                             !.pins = Pop(@, index),
                                             !.deposit_count = Pop(@, index),
                                             !.account_numbers = Pop(@, index)]
                 ELSE Prompted(b, 2)
    ELSE Prompted(b, 1)

deposit(b, name, amount) ==
    IF In(b.accounts, name)
    THEN LET index == FirstIndex(b.accounts, name)
             a == int(amount)
         IN IF isdigit(amount) /\ ~a.ok THEN Prompted(b, 2)
            ELSE IF isdigit(amount) /\ a.value > 0
                 THEN [Prompted(b, 2) EXCEPT !.balances[index] = @ + a.value,
                                             !.deposit_count[index] = @ + 1]
                 ELSE Prompted(b, 2)
    ELSE Prompted(b, 1)

\* Mutant: the balance of 300 or less is no bar to a withdrawal.
withdraw_no_floor(b, name, pin, amount) ==
    IF In(b.accounts, name)
    THEN LET index == FirstIndex(b.accounts, name)
             p == int(pin)
             a == int(amount)
         IN IF ~p.ok THEN Prompted(b, 2)
            ELSE IF p.value = b.pins[index]
                 THEN IF ~a.ok THEN Prompted(b, 3)
                      ELSE IF 0 < a.value /\ a.value <= b.balances[index]
                           THEN [Prompted(b, 3) EXCEPT !.balances[index] = @ - a.value]
                           ELSE Prompted(b, 3)
                 ELSE Prompted(b, 2)
    ELSE Prompted(b, 1)

withdraw(b, name, pin, amount) ==
    IF In(b.accounts, name)
    THEN LET index == FirstIndex(b.accounts, name)
             p == int(pin)
             a == int(amount)
         IN IF b.balances[index] <= WithdrawFloor THEN Prompted(b, 1)
            ELSE IF ~p.ok THEN Prompted(b, 2)
            ELSE IF p.value = b.pins[index]
                 THEN IF ~a.ok THEN Prompted(b, 3)
                      ELSE IF 0 < a.value /\ a.value <= b.balances[index]
                           THEN [Prompted(b, 3) EXCEPT !.balances[index] = @ - a.value]
                           ELSE Prompted(b, 3)
                 ELSE Prompted(b, 2)
    ELSE Prompted(b, 1)

\* check_balance prints and logs, and changes nothing.
check_balance(b, name, pin) ==
    IF In(b.accounts, name) THEN Prompted(b, 2) ELSE Prompted(b, 1)

apply_loan(b, name, amount) ==
    IF In(b.accounts, name)
    THEN LET index == FirstIndex(b.accounts, name)
             a == int(amount)
         IN IF b.deposit_count[index] < LoanDeposits THEN Prompted(b, 1)
            ELSE IF ~a.ok THEN Prompted(b, 2)
            ELSE IF 0 < a.value /\ a.value <= LoanLimit
                 THEN [Prompted(b, 2) EXCEPT !.loans = Append(@, a.value)]
                 ELSE Prompted(b, 2)
    ELSE Prompted(b, 1)

change_pin(b, name, pin, new) ==
    IF In(b.accounts, name)
    THEN LET index == FirstIndex(b.accounts, name)
             p == int(pin)
             n == int(new)
         IN IF ~p.ok THEN Prompted(b, 2)
            ELSE IF p.value = manager_pin
                 THEN IF isdigit(new) /\ Len(new) = 4
                      THEN IF ~n.ok THEN Prompted(b, 3)
                           ELSE [Prompted(b, 3) EXCEPT !.pins[index] = n.value]
                      ELSE Prompted(b, 3)
                 ELSE Prompted(b, 2)
    ELSE Prompted(b, 1)

\* The methods the history variable bank_op tells apart.
Noted == {"open_account", "delete_account", "withdraw"}

\* menu_options[choice](): the chosen method ran to its end and left b.
BankRan(b, op) ==
    /\ accounts' = b.accounts
    /\ citizens' = b.citizens
    /\ balances' = b.balances
    /\ account_numbers' = b.account_numbers
    /\ pins' = b.pins
    /\ deposit_count' = b.deposit_count
    /\ loans' = b.loans
    /\ bank_op' = IF op \in Noted THEN op ELSE "other"
    /\ bank_pre' = IF op \in {"withdraw", "delete_account"} THEN balances ELSE <<>>
    /\ UNCHANGED <<firevars, gamevars>>

\* The answers to the prompts a method comes to while its loops go on.
Answers(asked, inputs) == IF asked THEN inputs ELSE {NoAnswer}

\* Choice 1.  Each prompt of open_account is left by its break or by an
\* exception; after an exception nothing more is asked.
OpenAccount ==
    \E name \in NewNameInputs :
      /\ isalpha(strip(name))
      /\ \E citizen \in CitizenInputs :
           /\ CitizenRaises(citizen) \/ CitizenExits(Bank, citizen)
           /\ \E deposit_ \in Answers(~CitizenRaises(citizen), OpeningInputs) :
                /\ CitizenRaises(citizen) \/ OpeningRaises(deposit_) \/ OpeningExits(deposit_)
                /\ \E pin \in Answers(OpeningExits(deposit_), NewPinInputs) :
                     /\ ~OpeningExits(deposit_) \/ NewPinRaises(pin) \/ NewPinExits(pin)
                     /\ \E number \in NumberPool :
                          /\ ~In(account_numbers, number)
                          /\ BankRan(open_account(Bank, name, citizen, deposit_, pin, number),
                                     "open_account")

\* The answers given to a method that left r: those to the prompts it came
\* to; the answer to a prompt it did not come to is NoAnswer.
TwoAnswers(r, second) == r.asked < 2 => second = NoAnswer
ThreeAnswers(r, second, third) ==
    /\ r.asked < 2 => second = NoAnswer
    /\ r.asked < 3 => third = NoAnswer

\* Choice 2
DeleteAccount ==
    \E name \in NameInputs, pin \in ManagerPinInputs \cup {NoAnswer} :
        LET r == delete_account(Bank, name, pin) IN
        /\ TwoAnswers(r, pin)
        /\ BankRan(r, "delete_account")

\* Choice 3
Deposit ==
    \E name \in NameInputs, amount \in DepositInputs \cup {NoAnswer} :
        LET r == deposit(Bank, name, amount) IN
        /\ TwoAnswers(r, amount)
        /\ In(accounts, name) => deposit_count[FirstIndex(accounts, name)] < MaxDeposits
        /\ BankRan(r, "deposit")

\* Choice 4
Withdraw(name, pin, amount) ==
    LET r == withdraw(Bank, name, pin, amount) IN
    /\ ThreeAnswers(r, pin, amount)
    /\ BankRan(r, "withdraw")

\* Choice 5
ApplyLoan ==
    \E name \in NameInputs, amount \in AmountInputs \cup {NoAnswer} :
        LET r == apply_loan(Bank, name, amount) IN
        /\ TwoAnswers(r, amount)
        /\ BankRan(r, "apply_loan")

\* Choice 6
CheckBalance ==
    \E name \in NameInputs, pin \in PinInputs \cup {NoAnswer} :
        LET r == check_balance(Bank, name, pin) IN
        /\ TwoAnswers(r, pin)
        /\ BankRan(r, "check_balance")

\* Choice 7
ChangePin ==
    \E name \in NameInputs, pin \in ManagerPinInputs \cup {NoAnswer},
       new \in NewPinInputs \cup {NoAnswer} :
        LET r == change_pin(Bank, name, pin, new) IN
        /\ ThreeAnswers(r, pin, new)
        /\ BankRan(r, "change_pin")

BankInit ==
    /\ FireParked
    /\ InitGame
    /\ InitBank

BankNext ==
    \/ OpenAccount
    \/ DeleteAccount
    \/ Deposit
    \/ \E name \in NameInputs, pin \in PinInputs \cup {NoAnswer},
          amount \in AmountInputs \cup {NoAnswer} : Withdraw(name, pin, amount)
    \/ ApplyLoan
    \/ CheckBalance
    \/ ChangePin

SpecBank == BankInit /\ [][BankNext]_vars

\* The six per-account lists.
BankTypeOK ==
    /\ \A i \in 1..Len(accounts) : isalpha(accounts[i])
    /\ \A i \in 1..Len(deposit_count) : deposit_count[i] \in 1..MaxDeposits
    /\ \A i \in 1..Len(account_numbers) : account_numbers[i] \in NumberLow..NumberHigh

\* The account a name stands for exists, and it is the first of that name.
Allowed(name, pin, amount) ==
    /\ In(accounts, name)
    /\ balances[FirstIndex(accounts, name)] > WithdrawFloor
    /\ int(pin).ok /\ int(pin).value = pins[FirstIndex(accounts, name)]
    /\ int(amount).ok
    /\ 0 < int(amount).value
    /\ int(amount).value <= balances[FirstIndex(accounts, name)]

\* C37: withdraw changes a balance only when the account exists, its balance
\* is above 300, the PIN typed is the account's and 0 < amount <= balance;
\* then that balance goes down by exactly the amount and no other balance
\* changes; in every other case all balances stay as they are.  No balance
\* is negative in any reachable state, whatever the operations before.
\* (withdraw is the one method that leaves bank_op = "withdraw".)
C37_WithdrawOnlyWhenAllowed ==
    /\ [][bank_op' = "withdraw" =>
            \A name \in NameInputs, pin \in PinInputs \cup {NoAnswer},
               amount \in AmountInputs \cup {NoAnswer} :
                Withdraw(name, pin, amount) =>
                    IF Allowed(name, pin, amount)
                    THEN balances' = [balances EXCEPT ![FirstIndex(accounts, name)] =
                                                          @ - int(amount).value]
                    ELSE balances' = balances]_vars
    /\ [](\A i \in 1..Len(balances) : balances[i] >= 0)

\* Two accounts under one name; the first held 302 and all of it was
\* withdrawn, and the second kept its balance.
C37_Witness ==
    /\ bank_op = "withdraw"
    /\ Len(accounts) = 2 /\ accounts[1] = accounts[2]
    /\ Len(bank_pre) = 2 /\ bank_pre[1] = 302
    /\ balances[1] = 0
    /\ balances[2] = bank_pre[2]

\* C38: in every state reached by open_account and delete_account (and the
\* other menu choices), no two open accounts have the same account number or
\* the same citizenship number, and accounts, citizens, balances, pins,
\* deposit_count and account_numbers have the same length.
C38_UniqueNumbersAlignedLists ==
    /\ \A i, j \in 1..Len(account_numbers) :
            i # j => account_numbers[i] # account_numbers[j]
    /\ \A i, j \in 1..Len(citizens) : i # j => citizens[i] # citizens[j]
    /\ Len(citizens) = Len(accounts)
    /\ Len(balances) = Len(accounts)
    /\ Len(pins) = Len(accounts)
    /\ Len(deposit_count) = Len(accounts)
    /\ Len(account_numbers) = Len(accounts)

\* Of two open accounts one was deleted.
C38_Witness ==
    /\ bank_op = "delete_account"
    /\ Len(bank_pre) = 2
    /\ Len(accounts) = 1 /\ Len(account_numbers) = 1 /\ Len(citizens) = 1

====
